---- MODULE Spec2Model ----
(***************************************************************************)
(* The build-deploy-notify service of app.py: the Flask handler            *)
(* handle_build_request and the pipeline process_task it runs, with        *)
(* notify_evaluator, wait_for_pages_ok and run_cmd, over the two on-disk   *)
(* directories (/tmp/tds-proj1, /tmp/tds-proj1-attachments) and the remote *)
(* repository.  Every outcome the environment decides (a command's exit    *)
(* code, an HTTP status, what the generator returns) is a choice.          *)
(***************************************************************************)
EXTENDS Integers, Sequences, FiniteSets, TLC

(* ------------------------------ bounds --------------------------------- *)
\* requests one run of the model lets through to process_task
MaxRequests == 2
\* longest attachment list of a request
MaxAtt == 1
\* longest file list the generator returns
MaxFiles == 2

(* ------------------------- program constants --------------------------- *)
MY_SECRET == "well-that-is-a-secret"
\* range(1, 6): attempts 1..5
NotifyAttempts == 5
\* delay = 1
NotifyFirstDelay == 1
\* wait_for_pages_ok(pages_url, timeout=300)
PollTimeout == 300
\* time.sleep(2)
PollSleep == 2
repo_url == "https://github.com/USER/tds-proj1"
pages_url == "https://USER.github.io/tds-proj1/"
\* the text written when no LICENSE exists
MitText == -1
\* the stub's "MIT License (placeholder)"
Placeholder == -2

\* the handler's worker threads; Spec serves one request at a time on "w1"
Threads == {"w1", "w2"}

(* ------------------------------ requests ------------------------------- *)
\* the order of the tuple in `for fld in (...)`
RequiredFields == <<"email", "task", "round", "nonce", "brief", "evaluation_url">>
RequiredSet == {RequiredFields[i] : i \in 1..Len(RequiredFields)}

Nonces == {"n1"}
\* data['round'] as sent: int() parses the first two and rejects the third
RoundValues == {"1", "2", "x"}

\* what request.get_json(force=True, silent=True) returns: None for a body
\* that is not JSON, else the parsed value: a falsy one ({} [] 0 "" null),
\* a truthy one that is no object ([1], "s", 7), or an object
NoneBody == [kind |-> "none"]
FalsyBody == [kind |-> "falsy"]
NonDictBody == [kind |-> "nondict"]
Dict(d) == [kind |-> "dict", d |-> d]

Full(sec, n, r) ==
    [secret |-> sec, email |-> "e1", task |-> "t1", round |-> r, nonce |-> n,
     brief |-> "b1", evaluation_url |-> "u1"]
\* the object d without the keys in S
Drop(d, S) == [k \in (DOMAIN d) \ S |-> d[k]]

WellFormed == {Dict(Full(MY_SECRET, n, r)) : n \in Nonces, r \in RoundValues}
\* the key sets a defective request lacks: each single key, a pair, all of them
DroppedKeys ==
    {{k} : k \in RequiredSet \cup {"secret"}}
        \cup {{"task", "nonce"}, {"secret", "brief"}, RequiredSet}
Defective ==
    {Dict(Drop(Full(MY_SECRET, "n1", "1"), S)) : S \in DroppedKeys}
        \cup {Dict(Full("wrong", "n1", "1")), Dict(Drop(Full("wrong", "n1", "1"), {"email"}))}
Bodies == {NoneBody, FalsyBody, NonDictBody} \cup WellFormed \cup Defective

\* attachments: name and url as att.get() sees them ("" when absent)
AttPool ==
    { [name |-> "a.png", url |-> "data:ok"],
      [name |-> "a.png", url |-> "data:bad"],
      [name |-> "b.csv", url |-> "http"],
      [name |-> "", url |-> "data:ok"] }
AttNames == {"a.png", "b.csv"}
SeqsUpTo(S, n) == UNION {[1..k -> S] : k \in 0..n}
AttLists == SeqsUpTo(AttPool, MaxAtt)

(* --------------------------- generated files --------------------------- *)
FileNames == {"index.html", "README.md", "LICENSE"}
\* a name the reply may carry: a path, "" or none at all (fi.get("name") is None)
NoName == "<none>"
GenNames == FileNames \cup {"", NoName}
\* file contents are numbers: the tag of the request that generated them,
\* MitText, Placeholder, or Absent where there is no file
Absent == 0
NoFiles == [n \in FileNames |-> Absent]
\* the entries the reply to the k-th request may hold; the content is tagged
\* with k, so that no two rounds generate the same content
GenEntries(k) == {[name |-> nm, content |-> k] : nm \in GenNames}
\* the stub returned when the OpenAI SDK is not installed
StubFiles(k) ==
    << [name |-> "index.html", content |-> k], [name |-> "README.md", content |-> k],
       [name |-> "LICENSE", content |-> Placeholder] >>
\* generate_code_with_llm returned None
NoneFiles == << [name |-> NoName, content |-> Absent] >>

(* ------------------------------- git ----------------------------------- *)
NoSha == 0
\* the directory /tmp/tds-proj1 when it does not exist
NoRepo == [exists |-> FALSE, files |-> NoFiles, git |-> FALSE,
           index |-> NoFiles, log |-> << >>, origin |-> FALSE]
\* after rmtree + makedirs: an empty directory, no .git
EmptyRepo == [NoRepo EXCEPT !.exists = TRUE]
NoDir == [exists |-> FALSE, files |-> {}]
EmptyDir == [NoDir EXCEPT !.exists = TRUE]

\* no probe made yet
NoProbe == -1

(* ------------------------ extract_json_from_text ----------------------- *)
\* longest content of a string value of the embedded object
MaxStr == 2

\* a text is the sequence of its characters; a code-fence marker, which the
\* two re.sub calls delete whole, is one element
Quote == "\""
\* three backticks with a language tag and a newline; three backticks
FenceOpen == "<fence json>"
FenceClose == "<fence>"
Fences == {FenceOpen, FenceClose}

\* None, and a returned candidate
None == [found |-> FALSE, cand |-> << >>]
Found(cand) == [found |-> TRUE, cand |-> cand]

\* json.loads, for the JSON these characters can spell: objects, arrays and
\* strings (a string runs to the next quote).  Each Parse operator gives the
\* position after what it parsed at i, or 0 for a syntax error.
StringEnd(s, i) ==
    IF i > Len(s) \/ s[i] # Quote THEN 0
    ELSE LET closing == {j \in (i + 1)..Len(s) : s[j] = Quote}
         IN IF closing = {} THEN 0
            ELSE (CHOOSE j \in closing : \A k \in closing : j <= k) + 1

RECURSIVE ParseValue(_, _), ParseMembers(_, _), ParseElements(_, _)
ParseValue(s, i) ==
    IF i > Len(s) THEN 0
    ELSE IF s[i] = Quote THEN StringEnd(s, i)
    ELSE IF s[i] = "{"
        THEN IF i < Len(s) /\ s[i + 1] = "}" THEN i + 2 ELSE ParseMembers(s, i + 1)
    ELSE IF s[i] = "["
        THEN IF i < Len(s) /\ s[i + 1] = "]" THEN i + 2 ELSE ParseElements(s, i + 1)
    ELSE 0
\* "key": value, then `,` and more members, or the closing brace
ParseMembers(s, i) ==
    LET k == StringEnd(s, i) IN
    IF k = 0 \/ k > Len(s) \/ s[k] # ":" THEN 0
    ELSE LET v == ParseValue(s, k + 1) IN
         IF v = 0 \/ v > Len(s) THEN 0
         ELSE IF s[v] = "}" THEN v + 1
         ELSE IF s[v] = "," THEN ParseMembers(s, v + 1)
         ELSE 0
ParseElements(s, i) ==
    LET v == ParseValue(s, i) IN
    IF v = 0 \/ v > Len(s) THEN 0
    ELSE IF s[v] = "]" THEN v + 1
    ELSE IF s[v] = "," THEN ParseElements(s, v + 1)
    ELSE 0
\* json.loads(cand) does not raise
Loads(s) == ParseValue(s, 1) = Len(s) + 1

\* lines 228-229: the fence markers are deleted
StripFences(text) == SelectSeq(text, LAMBDA c : c \notin Fences)

\* lines 233-239: from i on with the depth `stack`, the position where the
\* depth comes back to 0, or 0 where the text ends first; every brace counts
RECURSIVE Walk(_, _, _)
Walk(text, i, stack) ==
    IF i > Len(text) THEN 0
    ELSE IF text[i] = "{" THEN Walk(text, i + 1, stack + 1)
    ELSE IF text[i] = "}"
        THEN IF stack - 1 = 0 THEN i ELSE Walk(text, i + 1, stack - 1)
    ELSE Walk(text, i + 1, stack)

\* lines 231-245: the opening braces from position s on, in order; the first
\* candidate that parses is returned, one that does not ends that start
RECURSIVE Scan(_, _)
Scan(text, s) ==
    IF s > Len(text) THEN None
    ELSE IF text[s] # "{" THEN Scan(text, s + 1)
    ELSE LET e == Walk(text, s, 0) IN
         IF e # 0 /\ Loads(SubSeq(text, s, e)) THEN Found(SubSeq(text, s, e))
         ELSE Scan(text, s + 1)

\* str.find and str.rfind of one character: 0 where Python gives -1
Find(text, c) ==
    LET at == {i \in 1..Len(text) : text[i] = c}
    IN IF at = {} THEN 0 ELSE CHOOSE i \in at : \A j \in at : i <= j
RFind(text, c) ==
    LET at == {i \in 1..Len(text) : text[i] = c}
    IN IF at = {} THEN 0 ELSE CHOOSE i \in at : \A j \in at : i >= j

\* lines 246-255: from the first `{` or `[` to the last `}` or `]`, parsed
\* once; min() of no position raises, which the bare except turns into None
Loose(text) ==
    LET opens == {Find(text, "{"), Find(text, "[")} \ {0}
        first == CHOOSE i \in opens : \A j \in opens : i <= j
        a == RFind(text, "}")
        b == RFind(text, "]")
        last == IF a > b THEN a ELSE b
    IN IF opens = {} THEN None
       ELSE IF Loads(SubSeq(text, first, last)) THEN Found(SubSeq(text, first, last))
       ELSE None

\* lines 224-256
extract_json_from_text(text, allow_loose) ==
    IF text = << >> THEN None
    ELSE LET stripped == StripFences(text)
             strict == Scan(stripped, 1)
         IN IF strict.found THEN strict
            ELSE IF allow_loose THEN Loose(stripped)
            ELSE None

\* the replies tried: an object with one string value, wrapped in prose and
\* fences, and short texts of braces, quotes and letters
StrChars == {"a", "{", "}"}
Obj(str) == <<"{", Quote, "k", Quote, ":", Quote>> \o str \o <<Quote, "}">>
Before == {<< >>, <<FenceOpen>>, <<"a">>, <<"a", FenceOpen>>, <<"{", "a", "}", FenceOpen>>}
After == {<< >>, <<FenceClose>>, <<"a">>, <<FenceClose, "a">>}
ShortTexts == UNION {[1..k -> {"{", "}", "a", Quote}] : k \in 0..3}

\* no reply is being extracted
NoCall == [pc |-> "none", raw |-> << >>, embedded |-> << >>, allow_loose |-> FALSE,
           json_text |-> None]
\* a reply arrives: raw, and the object it was built around (<< >>: none)
Reply(raw, embedded) == [NoCall EXCEPT !.pc = "reply", !.raw = raw, !.embedded = embedded]

(* ------------------------------ state ---------------------------------- *)
VARIABLES
    client,          \* "sdk" | "none": whether `from openai import OpenAI` worked
    th,              \* each handler thread's frame (see Idle)
    repo,            \* /tmp/tds-proj1: working tree and .git
    remote,          \* the history of main on the remote
    attachments_dir, \* /tmp/tds-proj1-attachments
    nextSha,         \* the next fresh commit id
    served,          \* the requests let through so far (line 50 printed)
    ex,              \* lines 214-216: the extraction of one backend reply (see NoCall)
    faults           \* whether the world outside may fail: the network, the tools,
                     \* the evaluator, the hosting (FALSE: only what the state
                     \* of the directories and of the repository makes fail)

shared == <<repo, remote, attachments_dir, nextSha, served, ex, faults>>
vars == <<client, th, shared>>

\* the frame of a thread that handles no request
Idle ==
    [ pc |-> "idle",
      data |-> NoneBody,      \* the parsed body of the request being handled
      rid |-> 0,              \* which request this is (1 for the first let through)
      attachments |-> << >>,  \* data.get('attachments', [])
      status |-> 0,           \* the status the handler is about to return
      sent |-> 0,             \* the status sent for the last request (0: none yet)
      invoked |-> FALSE,      \* process_task was called for this request
      err |-> "",             \* the exception process_task raised
      att_i |-> 0,            \* attachments processed so far
      generated |-> << >>,    \* what generate_code_with_llm returned
      file_i |-> 0,           \* generated files written so far
      rc |-> 0,               \* run_cmd: res.returncode of the last command run
      elapsed |-> 0,          \* wait_for_pages_ok: time.time() - t0
      probe |-> NoProbe,      \* wait_for_pages_ok: what the last probe gave
      ok |-> FALSE,           \* wait_for_pages_ok's result
      commit_sha |-> NoSha,   \* the SHA read by git rev-parse HEAD
      attempt |-> 0,          \* notify_evaluator: attempts made
      delay |-> 0,            \* notify_evaluator: the next delay
      slept |-> << >>,        \* notify_evaluator: the delays slept
      posts |-> << >> ]       \* notify_evaluator: the POSTs made, payload and answer

Init ==
    /\ client \in {"sdk", "none"}
    /\ th = [t \in Threads |-> Idle]
    /\ repo = NoRepo
    /\ remote = << >>
    /\ attachments_dir = NoDir
    /\ nextSha = 1
    /\ served = 0
    /\ ex = NoCall
    /\ faults = TRUE

(* ------------------------- handle_build_request ------------------------ *)
Get(d, k, default) == IF k \in DOMAIN d THEN d[k] ELSE default
NoValue == "<None>"

\* the required fields the object lacks, in the order the loop tests them
MissingFields(d) ==
    SelectSeq(RequiredFields, LAMBDA f : f \notin DOMAIN d)

\* lines 39-48: the status and error the validation returns; status 0 lets the
\* request through.  data.get on a parsed value that is no object raises
\* AttributeError outside any try: Flask answers 500.
Verdict(body) ==
    IF body.kind \in {"none", "falsy"} THEN [status |-> 400, error |-> "Invalid JSON"]
    ELSE IF body.kind = "nondict" THEN [status |-> 500, error |-> "AttributeError"]
    ELSE IF Get(body.d, "secret", NoValue) # MY_SECRET
        THEN [status |-> 401, error |-> "Unauthorized"]
    ELSE IF MissingFields(body.d) # << >>
        THEN [status |-> 400, error |-> MissingFields(body.d)[1]]
    ELSE [status |-> 0, error |-> ""]

\* a handler that catches RuntimeError alone
HandlerCatchesRuntimeError(e) ==
    e \notin {"ValueError", "binascii.Error", "TypeError", "IsADirectoryError"}
\* `except Exception` at line 53: every exception process_task raises
HandlerCatches(e) == TRUE

\* lines 39-52: a request arrives at an idle thread, its body is parsed and
\* validated; it is rejected, or process_task is called
Receive(t, body, atts) ==
    /\ th[t].pc = "idle"
    /\ served < MaxRequests
    /\ LET v == Verdict(body)
           f == [Idle EXCEPT !.data = body, !.attachments = atts]
       IN \/ /\ v.status # 0
             /\ th' = [th EXCEPT ![t] = [f EXCEPT !.pc = "respond", !.status = v.status]]
             /\ UNCHANGED served
          \/ /\ v.status = 0
             /\ th' = [th EXCEPT ![t] = [f EXCEPT !.pc = "start", !.invoked = TRUE,
                                                  !.rid = served + 1]]
             /\ served' = served + 1
    /\ UNCHANGED <<client, repo, remote, attachments_dir, nextSha, ex, faults>>

\* the frame after process_task raised e: caught at line 53 and answered 200
\* at line 57, or (were it not caught) answered 500 by Flask
Raised(f, e) ==
    [f EXCEPT !.pc = "respond", !.err = e,
              !.status = IF HandlerCatches(e) THEN 200 ELSE 500]

\* process_task returned: line 57
Returned(f) == [f EXCEPT !.pc = "respond", !.status = 200]

\* the return statement: the response goes out and the frame is dropped
Respond(t) ==
    /\ th[t].pc = "respond"
    /\ th' = [th EXCEPT ![t] = [Idle EXCEPT !.sent = th[t].status]]
    /\ UNCHANGED <<client, shared>>

(* ----------------------------- process_task ---------------------------- *)
\* int(data['round']): a ValueError unless the value is a number
IsInt(r) == r \in {"1", "2"}
IntOf(r) == CASE r = "1" -> 1 [] r = "2" -> 2 [] OTHER -> 0

\* lines 61-72: read the request, parse the round, test `if attachments:`
Start(t) ==
    /\ th[t].pc = "start"
    /\ LET f == th[t] IN
         th' = [th EXCEPT ![t] =
                  IF ~IsInt(f.data.d.round) THEN Raised(f, "ValueError")
                  ELSE IF f.attachments # << >> THEN [f EXCEPT !.pc = "att_clear"]
                  ELSE [f EXCEPT !.pc = "generate"]]
    /\ UNCHANGED <<client, shared>>

\* lines 73-76: rmtree the staging directory and make it anew
AttClear(t) ==
    /\ th[t].pc = "att_clear"
    /\ attachments_dir' = EmptyDir
    /\ th' = [th EXCEPT ![t].pc = "att_loop", ![t].att_i = 0]
    /\ UNCHANGED <<client, repo, remote, nextSha, served, ex, faults>>

\* `if name and url`
AttUsable(a) == a.name # "" /\ a.url # ""
\* the write loop entered straight after the last attachment
NextAttSkipsGenerating(f) ==
    [f EXCEPT !.att_i = f.att_i + 1,
              !.pc = IF f.att_i + 1 = Len(f.attachments) THEN "write" ELSE "att_loop"]
\* the frame after the loop body ran for one more attachment
NextAtt(f) ==
    [f EXCEPT !.att_i = f.att_i + 1,
              !.pc = IF f.att_i + 1 = Len(f.attachments) THEN "generate" ELSE "att_loop"]
\* open(join(attachments_dir, name), "wb").write(content): the directory is
\* kept as the set of the names of its files
Stage(dir, name) == [dir EXCEPT !.files = @ \cup {name}]

\* lines 77-94, one iteration: skip, decode a data: URL (split and b64decode
\* raise on a malformed one, outside any try), or fetch (failure is a warning)
AttStep(t) ==
    /\ th[t].pc = "att_loop"
    /\ LET f == th[t]
           a == f.attachments[f.att_i + 1]
       IN \/ /\ ~AttUsable(a)
             /\ th' = [th EXCEPT ![t] = NextAtt(f)]
             /\ UNCHANGED attachments_dir
          \/ /\ AttUsable(a) /\ a.url = "data:ok"
             /\ attachments_dir' = Stage(attachments_dir, a.name)
             /\ th' = [th EXCEPT ![t] = NextAtt(f)]
          \/ /\ AttUsable(a) /\ a.url = "data:bad"
             /\ th' = [th EXCEPT ![t] = Raised(f, "binascii.Error")]
             /\ UNCHANGED attachments_dir
          \/ /\ AttUsable(a) /\ a.url = "http"
             /\ \E fetched \in (IF faults THEN BOOLEAN ELSE {TRUE}) :
                  /\ attachments_dir' =
                        IF fetched THEN Stage(attachments_dir, a.name)
                        ELSE attachments_dir
                  /\ th' = [th EXCEPT ![t] = NextAtt(f)]
    /\ UNCHANGED <<client, repo, remote, nextSha, served, ex, faults>>

\* `if generated is None`: an empty list passes
FalsyNoneOnly(g) == g = NoneFiles
\* `if not generated`: None or an empty list
Falsy(g) == g = NoneFiles \/ g = << >>

\* what generate_code_with_llm may return for the k-th request:
\* the stub without the SDK; else None (backend error, no JSON found, a parse
\* error) or parsed.get("files", []), any list the reply held
Replies(k) ==
    IF client = "none" THEN {StubFiles(k)}
    ELSE {NoneFiles} \cup SeqsUpTo(GenEntries(k), MaxFiles)

\* lines 97-104: the call, `if not generated`, and the rmtree and makedirs of
\* the old clone.  `attachments` is not read after the call.
Generate(t) ==
    /\ th[t].pc = "generate"
    /\ \E g \in Replies(th[t].rid) :
         LET f == [th[t] EXCEPT !.attachments = << >>, !.att_i = 0] IN
         IF Falsy(g)
         THEN /\ th' = [th EXCEPT ![t] = Raised(f, "RuntimeError: Failed to generate code from LLM")]
              /\ UNCHANGED repo
         ELSE /\ th' = [th EXCEPT ![t] = [f EXCEPT !.pc = "write", !.generated = g,
                                                   !.file_i = 0]]
              /\ repo' = EmptyRepo
    /\ UNCHANGED <<client, remote, attachments_dir, nextSha, served, ex, faults>>

\* open(target, "w").write(content)
WriteFile(files, name, content) == [files EXCEPT ![name] = content]
\* os.path.join(repo_path, None) raises TypeError; open() of the directory
\* itself (name "") raises IsADirectoryError
Writable(name) == name \in FileNames

\* lines 107-113, one iteration
WriteStep(t) ==
    /\ th[t].pc = "write"
    /\ LET f == th[t]
           fi == f.generated[f.file_i + 1]
       IN \/ /\ ~Writable(fi.name)
             /\ th' = [th EXCEPT ![t] =
                        Raised(f, IF fi.name = NoName THEN "TypeError"
                                  ELSE "IsADirectoryError")]
             /\ UNCHANGED repo
          \/ /\ Writable(fi.name)
             /\ repo' = [repo EXCEPT !.files = WriteFile(repo.files, fi.name, fi.content)]
             /\ th' = [th EXCEPT ![t].file_i = f.file_i + 1,
                                 ![t].pc = IF f.file_i + 1 = Len(f.generated)
                                           THEN "license" ELSE "write"]
    /\ UNCHANGED <<client, remote, attachments_dir, nextSha, served, ex, faults>>

\* a LICENSE written whether or not one exists
NeedsLicenseAlways(files) == TRUE
\* `if not os.path.exists(licpath)`
NeedsLicense(files) == files["LICENSE"] = Absent

\* lines 116-126
License(t) ==
    /\ th[t].pc = "license"
    /\ repo' = [repo EXCEPT !.files = IF NeedsLicense(repo.files)
                                       THEN WriteFile(repo.files, "LICENSE", MitText)
                                       ELSE repo.files]
    /\ th' = [th EXCEPT ![t].pc = "git_init"]
    /\ UNCHANGED <<client, remote, attachments_dir, nextSha, served, ex, faults>>

(* ------------------------------- run_cmd ------------------------------- *)
ExitCodes == {0, 1}
\* a run_cmd that does not look at the return code
CmdNeverFails(rc) == FALSE
\* `if res.returncode != 0: raise RuntimeError`
CmdFails(rc) == rc # 0
\* res.returncode of a command: non-zero where the state of the repository
\* makes it fail (blocked), else what the world outside decides
Codes(blocked) == IF blocked THEN {1} ELSE IF faults THEN ExitCodes ELSE {0}
\* "fatal: not a git repository": the directory has no .git
NotARepo == ~repo.git
\* the tree of HEAD; nothing before the first commit
HeadTree(log) == IF log = << >> THEN NoFiles ELSE log[Len(log)].files

\* git init: in a directory without .git an empty history with no remote; in
\* one with .git nothing changes
GitInit(t) ==
    /\ th[t].pc = "git_init"
    /\ \E rc \in Codes(~repo.exists) :
         IF CmdFails(rc)
         THEN /\ th' = [th EXCEPT ![t] = Raised([th[t] EXCEPT !.rc = rc], "RuntimeError: Command failed: git init")]
              /\ UNCHANGED repo
         ELSE /\ repo' = [repo EXCEPT !.git = TRUE]
              /\ th' = [th EXCEPT ![t].pc = "git_checkout", ![t].rc = rc]
    /\ UNCHANGED <<client, remote, attachments_dir, nextSha, served, ex, faults>>

\* git checkout -b main: the history stays one line, on the branch pushed;
\* "a branch named 'main' already exists" once main has a commit
GitCheckout(t) ==
    /\ th[t].pc = "git_checkout"
    /\ \E rc \in Codes(NotARepo \/ repo.log # << >>) :
         IF CmdFails(rc)
         THEN th' = [th EXCEPT ![t] = Raised([th[t] EXCEPT !.rc = rc], "RuntimeError: Command failed: git checkout")]
         ELSE th' = [th EXCEPT ![t].pc = "git_add", ![t].rc = rc]
    /\ UNCHANGED <<client, shared>>

\* git add . : the working tree is staged
GitAdd(t) ==
    /\ th[t].pc = "git_add"
    /\ \E rc \in Codes(NotARepo) :
         IF CmdFails(rc)
         THEN /\ th' = [th EXCEPT ![t] = Raised([th[t] EXCEPT !.rc = rc], "RuntimeError: Command failed: git add")]
              /\ UNCHANGED repo
         ELSE /\ repo' = [repo EXCEPT !.index = repo.files]
              /\ th' = [th EXCEPT ![t].pc = "git_commit", ![t].rc = rc]
    /\ UNCHANGED <<client, remote, attachments_dir, nextSha, served, ex, faults>>

Commit(sha, files, round_num) == [sha |-> sha, files |-> files, round |-> round_num]
HeadSha(log) == IF log = << >> THEN NoSha ELSE log[Len(log)].sha

\* git commit -m "Round {round_num} commit": a new commit of what is staged,
\* on top of the local history; "nothing to commit" exits 1
GitCommit(t) ==
    /\ th[t].pc = "git_commit"
    /\ \E rc \in Codes(NotARepo \/ repo.index = HeadTree(repo.log)) :
         IF CmdFails(rc)
         THEN /\ th' = [th EXCEPT ![t] = Raised([th[t] EXCEPT !.rc = rc], "RuntimeError: Command failed: git commit")]
              /\ UNCHANGED <<repo, nextSha>>
         ELSE /\ repo' = [repo EXCEPT !.log =
                            Append(repo.log, Commit(nextSha, repo.index,
                                                    IntOf(th[t].data.d.round)))]
              /\ nextSha' = nextSha + 1
              /\ th' = [th EXCEPT ![t].pc = "git_remote", ![t].rc = rc]
    /\ UNCHANGED <<client, remote, attachments_dir, served, ex, faults>>

\* lines 136-139: git remote add origin ("remote origin already exists" where
\* there is one), and on its failure git remote set-url ("No such remote"
\* where there is none); the remote is always the same URL
GitRemoteAdd(t) ==
    /\ th[t].pc = "git_remote"
    /\ \E rc \in Codes(NotARepo \/ repo.origin) :
         IF CmdFails(rc)
         THEN /\ th' = [th EXCEPT ![t].pc = "git_seturl", ![t].rc = rc]
              /\ UNCHANGED repo
         ELSE /\ repo' = [repo EXCEPT !.origin = TRUE]
              /\ th' = [th EXCEPT ![t].pc = "git_push", ![t].rc = rc]
    /\ UNCHANGED <<client, remote, attachments_dir, nextSha, served, ex, faults>>

GitSetUrl(t) ==
    /\ th[t].pc = "git_seturl"
    /\ \E rc \in Codes(NotARepo \/ ~repo.origin) :
         IF CmdFails(rc)
         THEN th' = [th EXCEPT ![t] = Raised([th[t] EXCEPT !.rc = rc], "RuntimeError: Command failed: git remote set-url")]
         ELSE th' = [th EXCEPT ![t].pc = "git_push", ![t].rc = rc]
    /\ UNCHANGED <<client, shared>>

\* what the remote holds after `git push -u origin main --force` of the local
\* history: the local history, whatever the remote held
Pushed(old, log) == log

\* line 141: fails where there is no remote or no commit to push.
\* `generated` is not read after the write loop; the frame drops it here.
GitPush(t) ==
    /\ th[t].pc = "git_push"
    /\ \E rc \in Codes(NotARepo \/ ~repo.origin \/ repo.log = << >>) :
         IF CmdFails(rc)
         THEN /\ th' = [th EXCEPT ![t] = Raised([th[t] EXCEPT !.rc = rc], "RuntimeError: Command failed: git push")]
              /\ UNCHANGED remote
         ELSE /\ remote' = Pushed(remote, repo.log)
              /\ th' = [th EXCEPT ![t].pc = "gh_pages", ![t].generated = << >>,
                                    ![t].rc = rc]
    /\ UNCHANGED <<client, repo, attachments_dir, nextSha, served, ex, faults>>

\* a try around the publish command that catches nothing
TriggerCatchesNothing(e) == FALSE
\* `except Exception` at line 147: every exception run_cmd raises
TriggerCatches(e) == TRUE

\* lines 145-148: gh pages publish; its failure is printed and dropped
GhPages(t) ==
    /\ th[t].pc = "gh_pages"
    /\ \E rc \in Codes(FALSE) :
         LET e == "RuntimeError: Command failed: gh pages publish" IN
         IF CmdFails(rc) /\ ~TriggerCatches(e)
         THEN th' = [th EXCEPT ![t] = Raised([th[t] EXCEPT !.rc = rc], e)]
         ELSE th' = [th EXCEPT ![t].pc = "poll", ![t].rc = rc, ![t].elapsed = 0,
                               ![t].probe = NoProbe]
    /\ UNCHANGED <<client, shared>>

(* --------------------------- wait_for_pages_ok -------------------------- *)
\* what one requests.get(url, timeout=5) gives: a status, or 0 for an exception
ProbeAnswers == {200, 404, 0}
\* how long one probe takes, in seconds: timeout=5 bounds each wait on the
\* socket, not the call; a slow answer, or one that outlasts the deadline
ProbeTimes == {98, 298}
Min(a, b) == IF a < b THEN a ELSE b
\* what a probe of the page may give
Probes == IF faults THEN ProbeAnswers ELSE {200}
\* any answered probe taken for a ready page
PageReadyAnyStatus(answer) == answer # 0
\* `if r.status_code == 200`
PageReady(answer) == answer = 200

\* lines 270-279, one pass of the while loop: the deadline test, one probe,
\* the sleep.  elapsed stops at the timeout: only `elapsed < timeout` reads it.
\* The bare `except` catches whatever the probe raises.
Poll(t) ==
    /\ th[t].pc = "poll"
    /\ LET f == th[t] IN
         \/ /\ f.elapsed >= PollTimeout
            /\ th' = [th EXCEPT ![t].pc = "polled", ![t].ok = FALSE]
         \/ /\ f.elapsed < PollTimeout
            /\ \E answer \in Probes, took \in ProbeTimes :
                 IF PageReady(answer)
                 THEN th' = [th EXCEPT ![t].pc = "polled", ![t].ok = TRUE,
                                       ![t].probe = answer]
                 ELSE th' = [th EXCEPT ![t].probe = answer,
                                       ![t].elapsed =
                                  Min(f.elapsed + took + PollSleep, PollTimeout)]
    /\ UNCHANGED <<client, shared>>

\* lines 151-153: the call returns, `if not ok` prints the warning; the
\* poller's locals are gone
Polled(t) ==
    /\ th[t].pc = "polled"
    /\ th' = [th EXCEPT ![t].pc = "rev_parse", ![t].elapsed = 0, ![t].probe = NoProbe]
    /\ UNCHANGED <<client, shared>>

\* line 156: git rev-parse HEAD prints the SHA of the local head; it exits
\* non-zero where there is no commit.  ok is not read after line 152.
RevParse(t) ==
    /\ th[t].pc = "rev_parse"
    /\ \E rc \in Codes(NotARepo \/ repo.log = << >>) :
         IF CmdFails(rc)
         THEN th' = [th EXCEPT ![t] =
                        Raised([th[t] EXCEPT !.rc = rc, !.ok = FALSE],
                               "RuntimeError: Command failed: git rev-parse")]
         ELSE th' = [th EXCEPT ![t].pc = "notify", ![t].commit_sha = HeadSha(repo.log),
                               ![t].rc = rc, ![t].ok = FALSE,
                               ![t].attempt = 1, ![t].delay = NotifyFirstDelay]
    /\ UNCHANGED <<client, shared>>

(* --------------------------- notify_evaluator --------------------------- *)
\* a payload whose commit_sha is left out
PayloadNoSha(orig, repo_url_, commit_sha_, pages_url_) ==
    [email |-> orig.email, task |-> orig.task, round |-> orig.round, nonce |-> orig.nonce,
     repo_url |-> repo_url_, commit_sha |-> NoSha, pages_url |-> pages_url_]
\* lines 283-291
Payload(orig, repo_url_, commit_sha_, pages_url_) ==
    [email |-> orig.email, task |-> orig.task, round |-> orig.round, nonce |-> orig.nonce,
     repo_url |-> repo_url_, commit_sha |-> commit_sha_, pages_url |-> pages_url_]

\* what one requests.post gives: a status, or 0 for an exception
PostAnswers == {200, 500, 0}
\* what a POST to the evaluator may give
Posts == IF faults THEN PostAnswers ELSE {200}
\* any answered POST taken for success
NotifiedByAnyStatus(answer) == answer # 0
\* `if r.status_code == 200`
Notified(answer) == answer = 200
\* `for attempt in range(1, 6)`: whether the loop runs the body again
MoreAttempts(attempt) == attempt <= NotifyAttempts
\* `delay *= 2`
NextDelay(d) == d * 2

\* lines 295-308, one pass of the for loop: the POST; a 200 returns from
\* notify_evaluator and so from process_task; else the sleep and the doubling,
\* and after the last pass the raise
NotifyAttempt(t) ==
    /\ th[t].pc = "notify"
    /\ LET f == th[t]
           payload == Payload(f.data.d, repo_url, f.commit_sha, pages_url)
       IN \E answer \in Posts :
            LET g == [f EXCEPT !.posts = Append(f.posts, [url |-> f.data.d.evaluation_url,
                                                          json |-> payload,
                                                          answer |-> answer])]
                h == [g EXCEPT !.slept = Append(f.slept, f.delay),
                               !.delay = NextDelay(f.delay),
                               !.attempt = f.attempt + 1]
            IN th' = [th EXCEPT ![t] =
                        IF Notified(answer) THEN Returned(g)
                        ELSE IF MoreAttempts(h.attempt) THEN h
                        ELSE Raised(h, "RuntimeError: Failed notifying evaluator after retries.")]
    /\ UNCHANGED <<client, shared>>

(* ------------------- generate_code_with_llm, 214-216 ------------------- *)
\* line 214: json_text = extract_json_from_text(raw)
ExtractStrict ==
    /\ ex.pc = "reply"
    /\ ex' = [ex EXCEPT !.pc = "strict", !.allow_loose = FALSE,
                        !.json_text = extract_json_from_text(ex.raw, FALSE)]
    /\ UNCHANGED <<client, th, repo, remote, attachments_dir, nextSha, served, faults>>

\* lines 215-216: `if not json_text`, the call with allow_loose=True
ExtractLoose ==
    /\ ex.pc = "strict"
    /\ ~ex.json_text.found
    /\ ex' = [ex EXCEPT !.pc = "loose", !.allow_loose = TRUE,
                        !.json_text = extract_json_from_text(ex.raw, TRUE)]
    /\ UNCHANGED <<client, th, repo, remote, attachments_dir, nextSha, served, faults>>

(* ---------------------------- specifications --------------------------- *)
Step(t) ==
    \/ \E body \in Bodies :
         \E atts \in (IF body \in WellFormed THEN AttLists ELSE {<< >>}) :
            Receive(t, body, atts)
    \/ Respond(t)
    \/ Start(t)
    \/ AttClear(t)
    \/ AttStep(t)
    \/ Generate(t)
    \/ WriteStep(t)
    \/ License(t)
    \/ GitInit(t)
    \/ GitCheckout(t)
    \/ GitAdd(t)
    \/ GitCommit(t)
    \/ GitRemoteAdd(t)
    \/ GitSetUrl(t)
    \/ GitPush(t)
    \/ GhPages(t)
    \/ Poll(t)
    \/ Polled(t)
    \/ RevParse(t)
    \/ NotifyAttempt(t)

\* one request in flight at a time (the design's assumption, spec section 5)
Next == Step("w1")
Spec == Init /\ [][Next]_vars

\* the extraction of one reply, for every reply tried
InitExtract ==
    /\ client = "sdk"
    /\ th = [t \in Threads |-> Idle]
    /\ repo = NoRepo
    /\ remote = << >>
    /\ attachments_dir = NoDir
    /\ nextSha = 1
    /\ served = 0
    /\ faults = TRUE
    /\ \/ \E str \in SeqsUpTo(StrChars, MaxStr), pre \in Before, post \in After :
             ex = Reply(pre \o Obj(str) \o post, Obj(str))
       \/ \E raw \in ShortTexts : ex = Reply(raw, << >>)
NextExtract == ExtractStrict \/ ExtractLoose
SpecExtract == InitExtract /\ [][NextExtract]_vars

\* the threaded server (app.run serves each request on a thread of its own):
\* requests handled side by side, the stub generator, and a world that does
\* not fail
InitThreaded ==
    /\ client = "none"
    /\ th = [t \in Threads |-> Idle]
    /\ repo = NoRepo
    /\ remote = << >>
    /\ attachments_dir = NoDir
    /\ nextSha = 1
    /\ served = 0
    /\ ex = NoCall
    /\ faults = FALSE
NextThreaded == \E t \in Threads : Step(t)
SpecThreaded == InitThreaded /\ [][NextThreaded]_vars

(* ------------------------------- claims -------------------------------- *)
\* the handler stands at its return statement
AtReturn(t) == th[t].pc = "respond"
\* process_task was called and returned / raised
Completed(t) == AtReturn(t) /\ th[t].invoked /\ th[t].err = ""
Aborted(t) == AtReturn(t) /\ th[t].invoked /\ th[t].err # ""
\* the round has made its commit and not yet pushed it
Committed(t) == th[t].pc \in {"git_remote", "git_seturl", "git_push"}
RoundOf(t) == IntOf(th[t].data.d.round)
LastCommit(log) == log[Len(log)]
Names(g) == {g[i].name : i \in 1..Len(g)}
\* the content of the last entry of g named n
LastContent(g, n) ==
    g[CHOOSE i \in 1..Len(g) :
        g[i].name = n /\ \A j \in (i + 1)..Len(g) : g[j].name # n].content
NotifyError == "RuntimeError: Failed notifying evaluator after retries."

\* C1: when process_task of an accepted request has returned or raised, the
\* 200 acknowledgment of that request has already been sent: the response
\* does not wait for the pipeline.
C1_AckBeforePipelineEnds ==
    \A t \in Threads : (AtReturn(t) /\ th[t].invoked) => th[t].sent = 200

\* the request is not JSON, or carries no matching secret, or lacks a field
Malformed(body) ==
    \/ body.kind # "dict"
    \/ Get(body.d, "secret", NoValue) # MY_SECRET
    \/ \E k \in RequiredSet : k \notin DOMAIN body.d

\* C2: a request that is not JSON, whose secret does not match or that lacks
\* a required field is answered 400 or 401, and process_task is not called.
C2_MalformedGets400Or401 ==
    \A t \in Threads :
        (AtReturn(t) /\ Malformed(th[t].data)) =>
            (th[t].status \in {400, 401} /\ ~th[t].invoked)

\* the commit c is the one the round of thread t made of its own files
OwnCommit(t, c) ==
    /\ c.sha = th[t].commit_sha
    /\ c.round = RoundOf(t)
    /\ \E n \in FileNames : c.files[n] = th[t].rid
    /\ \A n \in FileNames : c.files[n] \in {th[t].rid, MitText, Placeholder, Absent}

\* C3: every exception process_task raises is caught by the handler, which
\* still answers 200; and a round that completes, whatever failed before it,
\* has pushed and reported its own commit of its own files.
C3_PipelineErrorsContained ==
    \A t \in Threads :
        /\ Aborted(t) => th[t].status = 200
        /\ Completed(t) =>
              /\ th[t].status = 200
              /\ remote # << >> /\ OwnCommit(t, LastCommit(remote))
              /\ th[t].posts # << >>
              /\ th[t].posts[Len(th[t].posts)].json.commit_sha = th[t].commit_sha

\* the second request let through completes with the first commit ever made:
\* the first round raised before it committed
C3_RoundAfterFailedRound ==
    \E t \in Threads : Completed(t) /\ th[t].rid = 2 /\ th[t].commit_sha = 1

\* C4: when no POST is answered 200, notify_evaluator makes 5 POSTs, raises,
\* and has slept 1, 2, 4, 8 between them and nothing after the last.
C4_FiveAttemptsFourDelays ==
    \A t \in Threads :
        th[t].err = NotifyError =>
            /\ Len(th[t].posts) = 5
            /\ \A i \in 1..5 : th[t].posts[i].answer # 200
            /\ th[t].slept = <<1, 2, 4, 8>>

\* C5: a 200 is the last POST notify_evaluator makes and reports success; it
\* makes at most 5; and success is reported only on an answer of exactly 200.
C5_StopsAtFirst200 ==
    \A t \in Threads :
        LET p == th[t].posts IN
        /\ Len(p) <= NotifyAttempts
        /\ \A i \in 1..Len(p) : p[i].answer = 200 => (i = Len(p) /\ Completed(t))
        /\ Completed(t) => (p # << >> /\ p[Len(p)].answer = 200)

\* four POSTs failed and the fifth was answered 200
C5_SuccessOnFifthAttempt ==
    \E t \in Threads :
        /\ Completed(t) /\ Len(th[t].posts) = 5
        /\ \A i \in 1..4 : th[t].posts[i].answer # 200

\* C6: a round that completes with its first POST answered 200 has made one
\* POST, to the request's evaluation_url, carrying the request's email, task,
\* round and nonce, the repository URL, the pages URL, and the SHA of the
\* commit this round pushed.
C6_OneMatchingNotification ==
    \A t \in Threads :
        (Completed(t) /\ th[t].posts # << >> /\ th[t].posts[1].answer = 200) =>
            LET d == th[t].data.d
                post == th[t].posts[1]
            IN /\ Len(th[t].posts) = 1
               /\ post.url = d.evaluation_url
               /\ post.json.email = d.email /\ post.json.task = d.task
               /\ post.json.round = d.round /\ post.json.nonce = d.nonce
               /\ post.json.repo_url = repo_url /\ post.json.pages_url = pages_url
               /\ remote # << >>
               /\ post.json.commit_sha = LastCommit(remote).sha
               /\ OwnCommit(t, LastCommit(remote))

\* the second round completes on a first POST answered 200
C6_NotifiedAtOnce ==
    \E t \in Threads :
        /\ Completed(t) /\ th[t].rid = 2
        /\ Len(th[t].posts) = 1 /\ th[t].posts[1].answer = 200

\* C7: the tree a round >= 2 commits, on top of what round 1 published, holds
\* every file of the new set with its new content and every file round 1
\* published that the new set does not name, unchanged.
C7_OnlyListedFilesRewritten ==
    \A t \in Threads :
        (/\ Committed(t) /\ RoundOf(t) >= 2
         /\ remote # << >> /\ LastCommit(remote).round = 1) =>
            LET old == LastCommit(remote).files
                new == LastCommit(repo.log).files
                g == th[t].generated
            IN \A n \in FileNames :
                 /\ n \in Names(g) => new[n] = LastContent(g, n)
                 /\ (n \notin Names(g) /\ old[n] # Absent) => new[n] = old[n]

\* C8: the push of a round >= 2 leaves on the remote every commit that was
\* there before it.
C8_PushKeepsHistory ==
    [][\A t \in Threads :
         (th[t].pc = "git_push" /\ th'[t].pc = "gh_pages" /\ RoundOf(t) >= 2) =>
             \A i \in 1..Len(remote) :
                 \E j \in 1..Len(remote') : remote'[j].sha = remote[i].sha]_vars

\* the tree the claim expects for the generated set g
ExpectedTree(g) ==
    [n \in FileNames |->
        IF n \in Names(g) THEN LastContent(g, n)
        ELSE IF n = "LICENSE" THEN MitText ELSE Absent]

\* C9: the tree round 1 commits holds the generated files with their content,
\* a synthesized LICENSE if none was generated, and nothing else.
C9_Round1TreeIsGeneratedPlusLicense ==
    \A t \in Threads :
        (Committed(t) /\ RoundOf(t) = 1) =>
            LastCommit(repo.log).files = ExpectedTree(th[t].generated)

\* round 1 committed a set without LICENSE, and the LICENSE was synthesized
C9_LicenseSynthesized ==
    \E t \in Threads :
        /\ Committed(t) /\ RoundOf(t) = 1
        /\ "LICENSE" \notin Names(th[t].generated)
        /\ LastCommit(repo.log).files["LICENSE"] = MitText

\* C10: every committed tree holds the entry point, README.md and LICENSE.
C10_EntryReadmeLicenseCommitted ==
    \A t \in Threads :
        Committed(t) =>
            \A n \in {"index.html", "README.md", "LICENSE"} :
                LastCommit(repo.log).files[n] # Absent

\* C11: the file set generate_code_with_llm hands to the write loop is not
\* empty and every entry of it has a name that is present and not empty: a
\* reply with an empty list or a nameless entry is a generation failure.
C11_ReturnedSetHasNames ==
    \A t \in Threads :
        th[t].pc = "write" =>
            /\ th[t].generated # << >>
            /\ \A i \in 1..Len(th[t].generated) :
                  th[t].generated[i].name \notin {"", NoName}

\* no substring from an opening to a closing brace parses as JSON
NoBalancedJson(text) ==
    \A i, j \in 1..Len(text) :
        (i <= j /\ text[i] = "{" /\ text[j] = "}") => ~Loads(SubSeq(text, i, j))

\* C12: a call of extract_json_from_text on a text built around one JSON
\* object, wrapped in fences or prose, whose string value may hold braces,
\* returns exactly that object; on a text in which no balanced substring
\* parses as JSON it returns no candidate.
C12_ExtractsEmbeddedObject ==
    ex.pc \in {"strict", "loose"} =>
        /\ ex.embedded # << >> => ex.json_text = Found(ex.embedded)
        /\ (ex.embedded = << >> /\ NoBalancedJson(ex.raw)) => ex.json_text = None

\* C13: every pass of wait_for_pages_ok either returns true, on a probe
\* answered 200 before the deadline; or returns false, the deadline having
\* passed with no probe answered 200; or, the probe having answered another
\* status or raised, sleeps the interval and polls on.  It never raises.
C13_PollerReturnsOnFirst200 ==
    [][\A t \in Threads :
         th[t].pc = "poll" =>
            /\ th[t].probe # 200
            /\ \/ th'[t] = th[t]
               \/ /\ th'[t].pc = "polled" /\ th'[t].ok /\ th'[t].probe = 200
                  /\ th[t].elapsed < PollTimeout
               \/ /\ th'[t].pc = "polled" /\ ~th'[t].ok /\ th'[t].probe = th[t].probe
                  /\ th[t].elapsed >= PollTimeout
               \/ /\ th'[t].pc = "poll" /\ th'[t].probe \in {404, 0}
                  /\ th[t].elapsed < PollTimeout
                  /\ th'[t].elapsed >= Min(th[t].elapsed + PollSleep, PollTimeout)
                  /\ th'[t].err = ""]_vars

\* the poller returned true after a probe that was not answered 200
C13_ReadyAfterFailedProbe ==
    \E t \in Threads : th[t].pc = "polled" /\ th[t].ok /\ th[t].elapsed > 0

\* the stage a frame is in: 0 no round, 1 Materializing (lines 61-94),
\* 2 Generating (97-104), 3 Publishing (107-148), 4 AwaitingReadiness
\* (151-153), 5 Notifying (156-163), 6 the round is over
StageOf(f) ==
    CASE f.pc = "idle" -> 0
      [] f.pc \in {"start", "att_clear", "att_loop"} -> 1
      [] f.pc = "generate" -> 2
      [] f.pc \in {"write", "license", "git_init", "git_checkout", "git_add",
                   "git_commit", "git_remote", "git_seturl", "git_push", "gh_pages"} -> 3
      [] f.pc \in {"poll", "polled"} -> 4
      [] f.pc \in {"rev_parse", "notify"} -> 5
      [] f.pc = "respond" -> 6
Done(f) == f.pc = "respond" /\ f.invoked /\ f.err = ""

\* C14: every step of a round stays in its stage, moves to the next stage,
\* or aborts the round; a round is Done only out of Notifying, and a round
\* that is over is Done or Aborted and runs no stage again.
C14_StagesInOrder ==
    [][\A t \in Threads :
         LET a == StageOf(th[t])
             b == StageOf(th'[t])
         IN /\ a \in 1..4 => (b \in {a, a + 1} \/ (b = 6 /\ th'[t].err # ""))
            /\ a = 5 => (b = 5 \/ b = 6)
            /\ a = 6 => (b = 6 \/ b = 0)
            /\ a = 0 => (b \in {0, 1} \/ (b = 6 /\ ~th'[t].invoked))
            /\ Done(th'[t]) => (a = 5 \/ th'[t] = th[t])]_vars

\* a round is Done
C14_RoundDone == \E t \in Threads : Done(th[t]) /\ th[t].rid = 2

GenerationError == "RuntimeError: Failed to generate code from LLM"

\* C15: up to and including a generation that fails, no step of the round
\* changes the working tree or the remote; the failure (no reply, no JSON in
\* it, or an empty file list) ends the round at once, with no commit SHA read
\* and no POST made; and the write loop is never entered without files.
C15_FailedGenerationPublishesNothing ==
    [][\A t \in Threads :
         /\ (StageOf(th[t]) \in {1, 2} /\ StageOf(th'[t]) # 3) =>
                (repo' = repo /\ remote' = remote)
         /\ (th[t].pc = "generate" /\ th'[t].pc = "respond") =>
                /\ th'[t].err = GenerationError
                /\ th'[t].posts = << >> /\ th'[t].commit_sha = NoSha
         /\ th[t].err = GenerationError => th'[t].pc \in {"respond", "idle"}
         /\ th'[t].pc = "write" => th'[t].generated \notin {<< >>, NoneFiles}]_vars

\* the second round fails to generate, the first having published its tree
C15_GenerationFailedAfterPublish ==
    \E t \in Threads :
        /\ th[t].err = GenerationError /\ th[t].rid = 2
        /\ remote # << >> /\ repo.files = LastCommit(remote).files

CommandFailed(cmd) == "RuntimeError: Command failed: " \o cmd
FatalCommands == {"git init", "git checkout", "git add", "git commit",
                  "git remote set-url", "git push", "git rev-parse"}

\* C16 as stated: once a command of the publish stage has exited non-zero,
\* the round is out of the publish stage: no later publish command runs.
C16_FailedCommandEndsPublishing ==
    \A t \in Threads : th[t].rc # 0 => StageOf(th[t]) # 3

\* C16 as amended: a command that exited non-zero has ended the round with its
\* command failure, no later command having run (nothing initialized, staged,
\* committed or pushed after it), unless it was `git remote add`, which
\* `git remote set-url` follows, or the publish trigger, after which the
\* round polls.
C16_FailedCommandAbortsUnlessTolerated ==
    \A t \in Threads :
        LET f == th[t]
            unpushed == remote = << >> \/ LastCommit(remote).sha # HeadSha(repo.log)
        IN /\ f.rc # 0 =>
                \/ f.pc = "respond" /\ \E c \in FatalCommands : f.err = CommandFailed(c)
                \/ f.pc = "git_seturl"
                \/ f.pc \in {"poll", "polled", "rev_parse"}
           /\ f.err = CommandFailed("git init") => (f.rc # 0 /\ ~repo.git)
           /\ f.err \in {CommandFailed("git checkout"), CommandFailed("git add")} =>
                (f.rc # 0 /\ repo.index = NoFiles /\ repo.log = << >>)
           /\ f.err = CommandFailed("git commit") => (f.rc # 0 /\ repo.log = << >>)
           /\ f.err \in {CommandFailed("git remote set-url"), CommandFailed("git push")} =>
                (f.rc # 0 /\ unpushed /\ f.commit_sha = NoSha /\ f.posts = << >>)

\* the commit of the second round failed: the round is aborted, nothing pushed
C16_CommitFailed ==
    \E t \in Threads :
        /\ Aborted(t) /\ th[t].rc # 0 /\ th[t].rid = 2
        /\ th[t].err = CommandFailed("git commit")
        /\ remote # << >> /\ LastCommit(remote).round = 1

\* the remote head is the commit the round of thread t made and pushed
PushedOwn(t) ==
    /\ th[t].invoked
    /\ remote # << >> /\ LastCommit(remote).sha = HeadSha(repo.log)
    /\ \E n \in FileNames : LastCommit(remote).files[n] = th[t].rid

C18_MaterializingNeverAborts ==
    [][\A t \in Threads :
         th[t].pc \in {"att_clear", "att_loop"} =>
             th'[t].pc \in {"att_clear", "att_loop", "generate"}]_vars

\* C20: when a round has gone through its attachments, with or without any,
\* the staging directory holds files of this round's attachments only.
C20_StagingHoldsNoStaleFile ==
    \A t \in Threads :
        th[t].pc = "generate" =>
            attachments_dir.files \subseteq
                {th[t].attachments[i].name : i \in 1..Len(th[t].attachments)}

\* C19: with requests handled side by side, the SHA a round reads for its
\* notification is that of a commit of this round's own files: no other
\* round's deletion, writes or commit came between this round's steps on
\* the shared directory.
C19_NotifiesOwnCommit ==
    [][\A t \in Threads :
         (th[t].pc = "rev_parse" /\ th'[t].pc = "notify") =>
             LET c == LastCommit(repo.log) IN
             /\ th'[t].commit_sha = c.sha
             /\ \E n \in FileNames : c.files[n] = th[t].rid
             /\ \A n \in FileNames :
                   c.files[n] \in {th[t].rid, MitText, Placeholder, Absent}]_vars

====
